---- MODULE Spec2Model ----
(***************************************************************************)
(* Model of the paginated fetch pipeline of src/lib/api.ts (search,        *)
(* thread, profile over apiGet) and of the cache store that the tests of   *)
(* src/unnamed/part_000 exercise (lib/cache: get, set, clear, prune).      *)
(*                                                                         *)
(* An optional JavaScript value (opts.pages, opts.since, a Date that may   *)
(* be null, a number that may be NaN) is a set with at most one element:   *)
(* {} is undefined / null / NaN, {v} is the value v.                       *)
(***************************************************************************)
EXTENDS Integers, Sequences, FiniteSets, TLC

VARIABLES
    env,        \* where the API key can be found: [envKey, fileKey]
    now,        \* the wall clock (Date.now())
    op,         \* the running fetch: "none", "search", "thread", "profile"
    opts,       \* the options the fetch was called with
    phase,      \* "info" (profile's user-info call) or "loop" (the page loop)
    pc,         \* "idle", "await" (request in flight), "sleep", "done", "failed"
    pages,      \* the loop's page budget (pages / pagesToFetch)
    page,       \* the loop counter
    cursor,     \* the loop's cursor variable ("" is the first page)
    allTweets,  \* the records accumulated so far
    raw,        \* the body of the last successful page response
    requests,   \* number of HTTP requests issued by this fetch
    outstanding,\* number of requests whose response has not arrived
    log,        \* the requests and sleeps of this fetch, in order
    result,     \* what the fetch gave its caller
    fileReads,  \* number of reads of the fallback configuration file
    response,   \* the last HTTP response apiGet received
    received,   \* the record lists of the pages received so far, in order
    userRaw,    \* the body of profile's user-info response, {} before it
    input,      \* the array a transform was called on, as it is after the call
    call,       \* the transform called last, with its arguments
    output,     \* the array the transform returned
    store,      \* the cache directory: key -> entry (file) or NoFile
    dirExists,  \* whether the cache directory exists
    lastOp,     \* the last cache operation with its arguments and return value
    lastSet,    \* history: per (query, params), the records of its latest set
                \* that no clear or prune has removed since
    lastSetKey, \* history: per key, the records of the latest set of a pair
                \* with that key that no clear or prune has removed since
    cleared     \* history: the keys clear() removed that were not set since

fetchVars == <<op, opts, phase, pc, pages, page, cursor, allTweets, raw,
               requests, outstanding, log, result, fileReads, response,
               received, userRaw>>
cacheVars == <<store, dirExists, lastOp, lastSet, lastSetKey, cleared>>
pureVars == <<input, call, output>>
vars == <<env, now, fetchVars, cacheVars, pureVars>>

----------------------------------------------------------------------------
(* Bounds of the model *)

\* the clock runs from 0 to MaxTime
MaxTime == 2
\* the largest page budget a caller asks for
MaxPages == 2
\* the most records the API returns over one fetch
MaxTotal == 2
\* the most records the API returns in one page
MaxPageLen == 2
\* the longest array a transform is called on
MaxLen == 3
\* the largest engagement count of a record
MaxMetric == 1

----------------------------------------------------------------------------
(* Program constants *)

RATE_DELAY_MS == 200
SEARCH_DEFAULT_PAGES == 1
THREAD_DEFAULT_PAGES == 2
PROFILE_DEFAULT_COUNT == 20
PROFILE_PAGE_SIZE == 20
\* body.slice(0, 200) in apiGet's error message
BODY_SLICE == 200

----------------------------------------------------------------------------
(* Optional values and sequences *)

Undefined == {}
Some(v) == {v}
The(o) == CHOOSE v \in o : TRUE

\* JavaScript truthiness of an optional number: undefined, 0 (and NaN) are falsy
TruthyNum(o) == o # {} /\ o # {0}

\* a || d for an optional number a
OrDefault(o, d) == IF TruthyNum(o) THEN The(o) ELSE d

Min(a, b) == IF a <= b THEN a ELSE b

\* Array.prototype.slice(0, n) for n >= 0
Slice0(s, n) == SubSeq(s, 1, Min(n, Len(s)))

SeqsUpTo(S, n) == UNION {[1..k -> S] : k \in 0..n}

\* Math.ceil(a / b) for a >= 0, b > 0
CeilDiv(a, b) == (a + b - 1) \div b

----------------------------------------------------------------------------
(* Dates.  A date string is [fmt, t]: fmt "twitter" is the API's format    *)
(* ("Tue Dec 10 07:00:30 +0000 2024"), "iso" is ISO 8601, "garbage" is a   *)
(* string new Date() cannot parse (the empty string included); t is the    *)
(* instant a parseable string denotes.                                     *)

TwitterDate(t) == [fmt |-> "twitter", t |-> t]
IsoDate(t) == [fmt |-> "iso", t |-> t]
GarbageDate == [fmt |-> "garbage", t |-> 0]

\* new Date(s).getTime(): {} is NaN
GetTime(s) == IF s.fmt \in {"twitter", "iso"} THEN Some(s.t) ELSE Undefined

\* a >= b on numbers that may be NaN: false when either is NaN
GreaterEq(a, b) == a # {} /\ b # {} /\ The(a) >= The(b)

parseTwitterDate(dateStr) ==
    IF GetTime(dateStr) # {} THEN IsoDate(The(GetTime(dateStr))) ELSE dateStr

(* Records.  Of a raw tweet and of a Tweet the model keeps the identifier  *)
(* and the creation time.                                                  *)
RawTweets ==
    { [id |-> "1", createdAt |-> TwitterDate(0)],
      [id |-> "2", createdAt |-> TwitterDate(1)],
      [id |-> "3", createdAt |-> GarbageDate] }

parseTweet(t) == [id |-> t.id, created_at |-> parseTwitterDate(t.createdAt)]

\* a parse that makes one record of a missing list
parseTweetsOneOfMissing(rawTweets) ==
    IF rawTweets = {} THEN <<parseTweet([id |-> "", createdAt |-> GarbageDate])>>
    ELSE [i \in 1..Len(The(rawTweets)) |-> parseTweet(The(rawTweets)[i])]

\* rawTweets is the response's record-list field: {} when it is missing or
\* not an array
parseTweets(rawTweets) ==
    IF rawTweets = {} THEN <<>>
    ELSE [i \in 1..Len(The(rawTweets)) |-> parseTweet(The(rawTweets)[i])]

(* opts.since is [kind, v]: "short" is the shorthand <v><unit> (v units    *)
(* back from now), "iso" a parseable date string denoting instant v,       *)
(* "bad" any other non-empty string, "empty" the empty string.             *)
SinceValues ==
    { [kind |-> "short", v |-> 1], [kind |-> "iso", v |-> 1],
      [kind |-> "bad", v |-> 0], [kind |-> "empty", v |-> 0] }

\* JavaScript truthiness of an optional string
TruthyStr(o) == o # {} /\ The(o).kind # "empty"

\* the Date parseSinceDate returns at clock reading n: {} is null
parseSinceDate(since, n) ==
    IF since.kind = "short" THEN Some(n - since.v)
    ELSE IF since.kind = "iso" THEN Some(since.v)
    ELSE Undefined

----------------------------------------------------------------------------
(* The pieces of search, thread and profile *)

\* a loop that runs one iteration too many
LoopCondInclusive(p, budget) == p <= budget

\* for (...; page < pages; ...)
LoopCond(p, budget) == p < budget

\* a break test that trusts has_next_page and ignores a missing cursor
HasMoreFlagOnly(body) == body.has_next_page

\* the negation of the break test  !raw.has_next_page || !raw.next_cursor
HasMore(body) == body.has_next_page /\ body.next_cursor # ""

\* a sleep after every page that has a successor, the last of the budget too
NeedsDelayAlways(p, budget) == TRUE

\* if (page < pages - 1) await sleep(RATE_DELAY_MS)
NeedsDelay(p, budget) == p < budget - 1

\* a search that trusts the API's since: operator
RecencyFilterNone(tweets, since, n) == tweets

\* search's client-side date filter at clock reading n
RecencyFilter(tweets, since, n) ==
    IF TruthyStr(since) /\ parseSinceDate(The(since), n) # {}
    THEN SelectSeq(tweets,
             LAMBDA t : GreaterEq(GetTime(t.created_at),
                                  parseSinceDate(The(since), n)))
    ELSE tweets

\* a slice that is one record too long
TruncateOneMore(tweets, maxResults) ==
    IF TruthyNum(maxResults) THEN Slice0(tweets, The(maxResults) + 1) ELSE tweets

\* if (opts.maxResults) allTweets = allTweets.slice(0, opts.maxResults)
Truncate(tweets, maxResults) ==
    IF TruthyNum(maxResults) THEN Slice0(tweets, The(maxResults)) ELSE tweets

\* a search with thread's default budget
SearchPagesDefaultTwo(o) == OrDefault(o.pages, THREAD_DEFAULT_PAGES)

\* const pages = opts.pages || 1
SearchPages(o) == OrDefault(o.pages, SEARCH_DEFAULT_PAGES)
ThreadPages(o) == OrDefault(o.pages, THREAD_DEFAULT_PAGES)
ProfileCount(o) == OrDefault(o.count, PROFILE_DEFAULT_COUNT)
\* a page budget that rounds down and adds one
ProfilePagesFloorPlusOne(o) == (ProfileCount(o) \div PROFILE_PAGE_SIZE) + 1

\* const pagesToFetch = Math.ceil(count / 20)
ProfilePages(o) == CeilDiv(ProfileCount(o), PROFILE_PAGE_SIZE)

\* a search that cuts to maxResults first and filters what is left
FinalTweetsCutFirst(f, o, acc, n) ==
    IF f = "search" THEN RecencyFilter(Truncate(acc, o.maxResults), o.since, n)
    ELSE IF f = "profile" THEN Slice0(acc, ProfileCount(o))
    ELSE acc

\* what the fetch returns from the accumulated records
FinalTweets(f, o, acc, n) ==
    IF f = "search" THEN Truncate(RecencyFilter(acc, o.since, n), o.maxResults)
    ELSE IF f = "profile" THEN Slice0(acc, ProfileCount(o))
    ELSE acc

\* the status and the body text (its length) an error message quotes
NoDetail == [status |-> 0, text |-> 0]

NoResult == [kind |-> "none", err |-> "", tweets |-> <<>>, user |-> FALSE,
             detail |-> NoDetail]
Returned(f, tweets) ==
    [kind |-> "ok", err |-> "", tweets |-> tweets, user |-> (f = "profile"),
     detail |-> NoDetail]
\* a fetch that returns what it has when a page fails
ThrownPartial(err, acc) ==
    [kind |-> "ok", err |-> "", tweets |-> acc, user |-> FALSE,
     detail |-> NoDetail]

\* a thrown error: nothing accumulated goes with it
Thrown(err, acc) ==
    [kind |-> "error", err |-> err, tweets |-> <<>>, user |-> FALSE,
     detail |-> NoDetail]

(* HTTP responses: [status, text, json].  text is the length of the body   *)
(* text, json whether the body parses as JSON; status 0 is a fetch() that  *)
(* rejects (no response).                                                  *)
NoResponse == [status |-> 0, text |-> 0, json |-> FALSE]
OkResponse == [status |-> 200, text |-> 2, json |-> TRUE]

\* res.ok
ResOk(res) == res.status >= 200 /\ res.status <= 299

\* String.prototype.slice(0, n) on a text of length len
SliceText(len, n) == Min(len, n)

\* an apiGet that tests res.ok before the status 429
ClassifyOkFirst(res) ==
    IF res.status = 0 THEN "network"
    ELSE IF ~ResOk(res) THEN "http"
    ELSE IF res.status = 429 THEN "rate_limit"
    ELSE IF ~res.json THEN "parse"
    ELSE "body"

\* apiGet after its await fetch(...): what becomes of the response
Classify(res) ==
    IF res.status = 0 THEN "network"
    ELSE IF res.status = 429 THEN "rate_limit"
    ELSE IF ~ResOk(res) THEN "http"
    ELSE IF ~res.json THEN "parse"
    ELSE "body"

\* an error message that quotes the whole body
ErrorDetailWhole(res) == [status |-> res.status, text |-> res.text]

\* `twitterapi.io ${res.status}: ${body.slice(0, 200)}`
ErrorDetail(res) ==
    [status |-> res.status, text |-> SliceText(res.text, BODY_SLICE)]

\* the error apiGet throws for a response that yields no parsed body
apiGetThrow(res, acc) ==
    IF Classify(res) = "http"
    THEN [Thrown("http", acc) EXCEPT !.detail = ErrorDetail(res)]
    ELSE Thrown(Classify(res), acc)

\* a key lookup that reads the configuration file first
getApiKeyFileFirst(e) ==
    IF e.fileKey THEN Some("file")
    ELSE IF e.envKey THEN Some("env")
    ELSE Undefined

\* getApiKey: the source of the key, {} when it throws
getApiKey(e) ==
    IF e.envKey THEN Some("env")
    ELSE IF e.fileKey THEN Some("file")
    ELSE Undefined

\* the readFileSync calls of one getApiKey
FileReadsOf(e) == IF getApiKey(e) = {"env"} THEN 0 ELSE 1

LoopPath(f) ==
    IF f = "search" THEN "/twitter/tweet/advanced_search"
    ELSE IF f = "thread" THEN "/twitter/tweet/thread_context"
    ELSE "/twitter/user/last_tweets"

\* a test that takes any body with data for a found user
UserMissingNoData(body) == ~body.data

\* if (!userRaw.data || userRaw.status === "error") throw
UserMissing(body) == ~body.data \/ body.status = "error"

\* a timer whose callback is never called: the promise stays pending
sleepNeverResolves(ms) == FALSE

\* new Promise((r) => setTimeout(r, ms)): the timer calls r, whatever ms >= 0
sleep(ms) == ms >= 0

\* a loop that puts each page before the records it has
PushFront(acc, tweets) == tweets \o acc

\* allTweets.push(...tweets)
Push(acc, tweets) == acc \o tweets

\* a call that is not awaited: its request is still in flight when the caller
\* goes on
NotAwaited(outs) == outs

\* await apiGet(...): the caller goes on when the response has arrived, with
\* that request no longer in flight
Awaited(outs) == outs - 1

\* a request that never carries a cursor
CallEntryNoCursor(path, cur, key) ==
    [e |-> "call", path |-> path, cursor |-> "", ms |-> 0, key |-> key]

\* a request: its path, its cursor parameter ("" when it has none) and the
\* source of the key in its x-api-key header
CallEntry(path, cur, key) ==
    [e |-> "call", path |-> path, cursor |-> cur, ms |-> 0, key |-> key]
SleepEntry(ms) ==
    [e |-> "sleep", path |-> "", cursor |-> "", ms |-> ms, key |-> ""]

NoBody == [tweets |-> {}, has_next_page |-> FALSE, next_cursor |-> ""]

----------------------------------------------------------------------------
(* The cache store (lib/cache).  A query and a parameter string are        *)
(* sequences of characters; an entry is one file, named by its key, that   *)
(* holds the serialized records and has a modification time.               *)

\* the (query, params) pairs callers use: they differ in the query, in the
\* parameters, or in both
Pairs == { <<(<<"a">>), (<<>>)>>, <<(<<"a">>), (<<"b">>)>>, <<(<<"a", "b">>), (<<>>)>> }

\* a key that leaves the parameter string out
cacheKeyQueryOnly(query, params) == query

\* the key of (query, params): their concatenation
cacheKey(query, params) == query \o params
Keys == {cacheKey(pr[1], pr[2]) : pr \in Pairs}

\* the record sequences callers cache
CacheRecords ==
    { <<>>,
      <<parseTweet([id |-> "1", createdAt |-> TwitterDate(0)])>>,
      <<parseTweet([id |-> "2", createdAt |-> TwitterDate(1)]),
        parseTweet([id |-> "1", createdAt |-> TwitterDate(0)])>> }

\* the TTLs callers pass; MaxTime is at least every age the clock allows
TTLs == 0..MaxTime

\* the file's text and back
Serialize(records) == [json |-> records]
Deserialize(content) == Some(content.json)

NoFile == {}
FileOf(records, mtime) == Some([content |-> Serialize(records), mtime |-> mtime])
Age(entry, n) == n - entry.mtime

\* a freshness test that already rejects an entry whose age equals ttl
FreshStrict(entry, ttl, n) == Age(entry, n) < ttl

\* whether an entry read at clock reading n is within ttl
Fresh(entry, ttl, n) == Age(entry, n) <= ttl

\* a prune that already removes an entry whose age equals ttl
ExpiredInclusive(entry, ttl, n) == Age(entry, n) >= ttl

\* whether prune(ttl) at clock reading n removes the entry
Expired(entry, ttl, n) == Age(entry, n) > ttl

\* what get returns from the directory st: {} is absent
GetValue(st, query, params, ttl, n) ==
    LET f == st[cacheKey(query, params)] IN
    IF f = NoFile THEN Undefined
    ELSE IF Fresh(The(f), ttl, n) THEN Deserialize(The(f).content)
    ELSE Undefined

\* a set that appends to the records an existing entry holds
SetStoreMerge(st, query, params, records, n) ==
    LET k == cacheKey(query, params) IN
    [st EXCEPT ![k] = IF st[k] = NoFile THEN FileOf(records, n)
                      ELSE FileOf(The(st[k]).content.json \o records, n)]

\* the directory after set
SetStore(st, query, params, records, n) ==
    [st EXCEPT ![cacheKey(query, params)] = FileOf(records, n)]

\* a clear that leaves the entries written at the current clock reading
ClearStoreKeepsNewest(st) ==
    [k \in Keys |-> IF st[k] # NoFile /\ The(st[k]).mtime = now THEN st[k]
                    ELSE NoFile]

\* the keys clear() removes, and the directory after it
ClearRemoved(st) == {k \in Keys : st[k] # NoFile}
ClearStore(st) == [k \in Keys |-> NoFile]

\* the keys prune(ttl) removes, and the directory after it
PruneRemoved(st, ttl, n) == {k \in Keys : st[k] # NoFile /\ Expired(The(st[k]), ttl, n)}
PruneStore(st, ttl, n) ==
    [k \in Keys |-> IF k \in PruneRemoved(st, ttl, n) THEN NoFile ELSE st[k]]

NoOp == [name |-> "none", query |-> <<>>, params |-> <<>>, ttl |-> 0,
         records |-> <<>>, value |-> Undefined, count |-> 0]

----------------------------------------------------------------------------
(* The transforms on parsed records: sortBy, filterEngagement, dedupe.  A  *)
(* record is [id, metrics]; metrics holds the counts the transforms read.  *)

Metrics == {"likes", "impressions"}
TweetIds == {"1", "2"}
Tweets ==
    [id : TweetIds,
     metrics : [likes : 0..MaxMetric, impressions : {0, MaxMetric}]]

\* the comparator of sortBy: b.metrics[metric] - a.metrics[metric]
Compare(a, b, metric) == b.metrics[metric] - a.metrics[metric]

\* an insertion that puts t before the records it ties with
RECURSIVE InsertBeforeTies(_, _, _)
InsertBeforeTies(sorted, t, metric) ==
    IF sorted = <<>> THEN <<t>>
    ELSE IF Compare(Head(sorted), t, metric) >= 0
         THEN <<t>> \o sorted
         ELSE <<Head(sorted)>> \o InsertBeforeTies(Tail(sorted), t, metric)

\* one insertion of Array.prototype.sort, which is stable: t goes before the
\* first record the comparator puts after it, and so after the records it
\* ties with
RECURSIVE InsertStable(_, _, _)
InsertStable(sorted, t, metric) ==
    IF sorted = <<>> THEN <<t>>
    ELSE IF Compare(Head(sorted), t, metric) > 0
         THEN <<t>> \o sorted
         ELSE <<Head(sorted)>> \o InsertStable(Tail(sorted), t, metric)

\* a sort that reverses the order of the records that tie
RECURSIVE sortByTiesReversed(_, _)
sortByTiesReversed(tweets, metric) ==
    IF tweets = <<>> THEN <<>>
    ELSE InsertBeforeTies(sortByTiesReversed(SubSeq(tweets, 1, Len(tweets) - 1),
                                             metric),
                          tweets[Len(tweets)], metric)

\* [...tweets].sort((a, b) => b.metrics[metric] - a.metrics[metric])
RECURSIVE sortBy(_, _)
sortBy(tweets, metric) ==
    IF tweets = <<>> THEN <<>>
    ELSE InsertStable(sortBy(SubSeq(tweets, 1, Len(tweets) - 1), metric),
                      tweets[Len(tweets)], metric)

\* a sort in place: the caller's array is the sorted one afterwards
ArrayAfterSortInPlace(tweets, metric) == sortBy(tweets, metric)

\* the caller's array after sortBy: [...tweets] copies it, the copy is sorted
ArrayAfterSort(tweets, metric) == tweets

\* a filter that wants each threshold exceeded
filterEngagementStrict(tweets, o) ==
    SelectSeq(tweets, LAMBDA t :
        /\ ~(TruthyNum(o.minLikes) /\ t.metrics.likes <= The(o.minLikes))
        /\ ~(TruthyNum(o.minImpressions)
               /\ t.metrics.impressions <= The(o.minImpressions)))

\* tweets.filter(...): a record is dropped when a truthy threshold is above
\* its count
filterEngagement(tweets, o) ==
    SelectSeq(tweets, LAMBDA t :
        /\ ~(TruthyNum(o.minLikes) /\ t.metrics.likes < The(o.minLikes))
        /\ ~(TruthyNum(o.minImpressions)
               /\ t.metrics.impressions < The(o.minImpressions)))

\* a dedupe that keeps the last record of each id
RECURSIVE dedupeKeepLast(_)
dedupeKeepLast(tweets) ==
    IF tweets = <<>> THEN <<>>
    ELSE IF \E i \in 2..Len(tweets) : tweets[i].id = Head(tweets).id
         THEN dedupeKeepLast(Tail(tweets))
         ELSE <<Head(tweets)>> \o dedupeKeepLast(Tail(tweets))

\* the filter of dedupe, with the ids seen so far
RECURSIVE DedupeFrom(_, _)
DedupeFrom(tweets, seen) ==
    IF tweets = <<>> THEN <<>>
    ELSE IF Head(tweets).id \in seen
         THEN DedupeFrom(Tail(tweets), seen)
         ELSE <<Head(tweets)>>
                \o DedupeFrom(Tail(tweets), seen \cup {Head(tweets).id})

\* const seen = new Set(); tweets.filter(...)
dedupe(tweets) == DedupeFrom(tweets, {})

\* the thresholds a caller supplies
Thresholds ==
    [minLikes : {Undefined} \cup {Some(n) : n \in 0..MaxMetric},
     minImpressions : {Undefined, Some(0), Some(MaxMetric)}]
NoThresholds == [minLikes |-> Undefined, minImpressions |-> Undefined]

NoCall == [fn |-> "none", arg |-> <<>>, metric |-> "", o |-> NoThresholds]

----------------------------------------------------------------------------
(* The inputs the model draws from *)

PagesOpts == {Undefined} \cup {Some(n) : n \in 0..MaxPages}
MaxResultsOpts == {Undefined} \cup {Some(n) : n \in 0..MaxTotal}
SinceOpts == {Undefined} \cup {Some(v) : v \in SinceValues}
CountOpts == {Undefined} \cup
             {Some(n) : n \in {0, 1, 2, PROFILE_PAGE_SIZE, PROFILE_PAGE_SIZE + 1,
                               2 * PROFILE_PAGE_SIZE + 1}}
NoOpts == [pages |-> Undefined, since |-> Undefined,
           maxResults |-> Undefined, count |-> Undefined]

Cursors == {"c1", "c2"}
\* the responses that yield no parsed body: no response at all, 429, other
\* non-2xx statuses with a short and with a long body text, and a 2xx whose
\* body is not JSON
Failures ==
    {NoResponse, [status |-> 429, text |-> 0, json |-> FALSE],
     [status |-> 200, text |-> 2, json |-> FALSE]}
    \cup [status : {404, 500}, text : {0, BODY_SLICE + 1}, json : {FALSE}]

\* the bodies of /twitter/tweets
TweetBodies ==
    [tweets : {Undefined} \cup {Some(s) : s \in SeqsUpTo(RawTweets, MaxPageLen)},
     has_next_page : {FALSE}, next_cursor : {""}]

\* the page bodies the API can send when acc records were sent before
PageBodies(acc) ==
    [tweets : {Undefined} \cup
              {Some(s) : s \in SeqsUpTo(RawTweets,
                                        Min(MaxPageLen, MaxTotal - Len(acc)))},
     has_next_page : BOOLEAN,
     next_cursor : {""} \cup Cursors]

\* the bodies of /twitter/user/info
InfoBodies == [data : BOOLEAN, status : {"success", "error"}]

----------------------------------------------------------------------------
(* The fetch pipeline *)

Init ==
    /\ env \in [envKey : BOOLEAN, fileKey : BOOLEAN]
    /\ now = MaxTime
    /\ op = "none" /\ opts = NoOpts /\ phase = "loop" /\ pc = "idle"
    /\ pages = 0 /\ page = 0 /\ cursor = "" /\ allTweets = <<>>
    /\ raw = NoBody /\ requests = 0 /\ outstanding = 0 /\ log = <<>>
    /\ result = NoResult /\ fileReads = 0 /\ response = NoResponse
    /\ received = <<>> /\ userRaw = Undefined
    /\ input = <<>> /\ call = NoCall /\ output = <<>>
    /\ store = [k \in Keys |-> NoFile] /\ dirExists = FALSE /\ lastOp = NoOp
    /\ lastSet = [pr \in Pairs |-> Undefined]
    /\ lastSetKey = [k \in Keys |-> Undefined] /\ cleared = {}

\* apiGet up to its await fetch(...): the key lookup, then one HTTP request.
\* acc: the records accumulated when the call is made; lg, outs: the log and
\* the outstanding requests at that point
ApiGetIssue(path, cur, acc, lg, outs) ==
    /\ fileReads' = fileReads + FileReadsOf(env)
    /\ IF getApiKey(env) = {}
       THEN /\ pc' = "failed"
            /\ result' = Thrown("config", acc)
            /\ requests' = requests
            /\ outstanding' = outs
            /\ log' = lg
       ELSE /\ pc' = "await"
            /\ requests' = requests + 1
            /\ outstanding' = outs + 1
            /\ log' = Append(lg, CallEntry(path, cur, The(getApiKey(env))))
            /\ UNCHANGED result

\* the return of a fetch whose loop has ended with acc accumulated
Finish(acc, lg, outs) ==
    /\ pc' = "done"
    /\ result' = Returned(op, FinalTweets(op, opts, acc, now))
    /\ requests' = requests
    /\ outstanding' = outs
    /\ log' = lg
    /\ UNCHANGED fileReads

\* the head of the page loop with counter p, cursor cur and acc accumulated
LoopHead(f, p, budget, cur, acc, lg, outs) ==
    IF LoopCond(p, budget)
    THEN ApiGetIssue(LoopPath(f), cur, acc, lg, outs)
    ELSE Finish(acc, lg, outs)

\* search(query, o): up to the first await
CallSearch(o) ==
    /\ pc = "idle"
    /\ op' = "search" /\ opts' = o /\ phase' = "loop"
    /\ pages' = SearchPages(o) /\ page' = 0 /\ cursor' = "" /\ allTweets' = <<>>
    /\ ApiGetIssue(LoopPath("search"), "", <<>>, log, outstanding)
    /\ UNCHANGED <<env, now, raw, response, cacheVars, pureVars,
                   received, userRaw>>

\* thread(tweetId, o): up to the first await
CallThread(o) ==
    /\ pc = "idle"
    /\ op' = "thread" /\ opts' = o /\ phase' = "loop"
    /\ pages' = ThreadPages(o) /\ page' = 0 /\ cursor' = "" /\ allTweets' = <<>>
    /\ ApiGetIssue(LoopPath("thread"), "", <<>>, log, outstanding)
    /\ UNCHANGED <<env, now, raw, response, cacheVars, pureVars,
                   received, userRaw>>

\* profile(username, o): up to the first await (the user-info call)
CallProfile(o) ==
    /\ pc = "idle"
    /\ op' = "profile" /\ opts' = o /\ phase' = "info"
    /\ pages' = 0 /\ page' = 0 /\ cursor' = "" /\ allTweets' = <<>>
    /\ ApiGetIssue("/twitter/user/info", "", <<>>, log, outstanding)
    /\ UNCHANGED <<env, now, raw, response, cacheVars, pureVars,
                   received, userRaw>>

\* getTweet(tweetId): up to its await
CallGetTweet ==
    /\ pc = "idle"
    /\ op' = "getTweet" /\ opts' = NoOpts /\ phase' = "single"
    /\ pages' = 0 /\ page' = 0 /\ cursor' = "" /\ allTweets' = <<>>
    /\ ApiGetIssue("/twitter/tweets", "", <<>>, log, outstanding)
    /\ UNCHANGED <<env, now, raw, response, cacheVars, pureVars,
                   received, userRaw>>

\* the request in flight yields no parsed body (no response at all, status
\* 429, another non-2xx status, a body that is not JSON): apiGet throws and
\* the fetch with it
ResponseFails(res) ==
    /\ pc = "await"
    /\ response' = res
    /\ outstanding' = Awaited(outstanding)
    /\ pc' = "failed"
    /\ result' = apiGetThrow(res, allTweets)
    /\ UNCHANGED <<env, now, op, opts, phase, pages, page, cursor, allTweets,
                   raw, requests, log, fileReads, cacheVars, pureVars,
                   received, userRaw>>

\* getTweet: the response arrives
TweetResponse(body) ==
    /\ pc = "await" /\ phase = "single"
    /\ response' = OkResponse
    /\ outstanding' = Awaited(outstanding)
    /\ raw' = body
    /\ pc' = "done"
    /\ result' = Returned(op, IF body.tweets # {} /\ Len(The(body.tweets)) > 0
                              THEN <<parseTweet(The(body.tweets)[1])>>
                              ELSE <<>>)
    /\ UNCHANGED <<env, now, op, opts, phase, pages, page, cursor, allTweets,
                   requests, log, fileReads, cacheVars, pureVars,
                   received, userRaw>>

\* profile: the user-info response arrives; then sleep(RATE_DELAY_MS)
InfoResponse(body) ==
    /\ pc = "await" /\ phase = "info"
    /\ response' = OkResponse
    /\ outstanding' = Awaited(outstanding)
    /\ userRaw' = Some(body)
    /\ IF UserMissing(body)
       THEN /\ pc' = "failed"
            /\ result' = Thrown("not_found", allTweets)
            /\ UNCHANGED log
       ELSE /\ pc' = "sleep"
            /\ log' = Append(log, SleepEntry(RATE_DELAY_MS))
            /\ UNCHANGED result
    /\ UNCHANGED <<env, now, op, opts, phase, pages, page, cursor, allTweets,
                   raw, requests, fileReads, cacheVars, pureVars,
                   received>>

\* a page response arrives: the rest of the loop body, and whatever follows
\* it up to the next await or the return
PageResponse(body) ==
    /\ pc = "await" /\ phase = "loop"
    /\ response' = OkResponse
    /\ raw' = body
    /\ received' = Append(received, body.tweets)
    /\ allTweets' = Push(allTweets, parseTweets(body.tweets))
    /\ IF ~HasMore(body)
       THEN /\ Finish(allTweets', log, Awaited(outstanding))
            /\ UNCHANGED <<cursor, page>>
       ELSE /\ cursor' = body.next_cursor
            /\ IF NeedsDelay(page, pages)
               THEN /\ pc' = "sleep"
                    /\ log' = Append(log, SleepEntry(RATE_DELAY_MS))
                    /\ outstanding' = Awaited(outstanding)
                    /\ UNCHANGED <<page, result, requests, fileReads>>
               ELSE /\ page' = page + 1
                    /\ LoopHead(op, page', pages, cursor', allTweets', log,
                                Awaited(outstanding))
    /\ UNCHANGED <<env, now, op, opts, phase, pages, userRaw, cacheVars,
                   pureVars>>

\* a sleep ends: profile enters its page loop, a page loop goes to its next
\* iteration
SleepDone ==
    /\ pc = "sleep" /\ sleep(RATE_DELAY_MS)
    /\ IF phase = "info"
       THEN /\ phase' = "loop"
            /\ pages' = ProfilePages(opts)
            /\ page' = 0
       ELSE /\ page' = page + 1
            /\ UNCHANGED <<phase, pages>>
    /\ LoopHead(op, page', pages', cursor, allTweets, log, outstanding)
    /\ UNCHANGED <<env, now, op, opts, cursor, allTweets, raw, response,
                   cacheVars, pureVars,
                   received, userRaw>>

Next ==
    \/ \E p \in PagesOpts, s \in SinceOpts, m \in MaxResultsOpts :
           CallSearch([NoOpts EXCEPT !.pages = p, !.since = s, !.maxResults = m])
    \/ \E p \in PagesOpts : CallThread([NoOpts EXCEPT !.pages = p])
    \/ \E c \in CountOpts : CallProfile([NoOpts EXCEPT !.count = c])
    \/ CallGetTweet
    \/ \E res \in Failures : ResponseFails(res)
    \/ \E body \in TweetBodies : TweetResponse(body)
    \/ \E body \in InfoBodies : InfoResponse(body)
    \/ \E body \in PageBodies(allTweets) : PageResponse(body)
    \/ SleepDone

Spec == Init /\ [][Next]_vars

\* the response to the request in flight arrives, whatever it is
Respond ==
    \/ \E res \in Failures : ResponseFails(res)
    \/ \E body \in TweetBodies : TweetResponse(body)
    \/ \E body \in InfoBodies : InfoResponse(body)
    \/ \E body \in PageBodies(allTweets) : PageResponse(body)

\* the fetch pipeline when every request is answered in the end and every
\* timer fires
FairSpec == Init /\ [][Next]_vars /\ WF_vars(Respond) /\ WF_vars(SleepDone)

----------------------------------------------------------------------------
(* The cache operations *)

\* cache.set(query, params, records)
Set(query, params, records) ==
    /\ store' = SetStore(store, query, params, records, now)
    /\ dirExists' = TRUE
    /\ lastOp' = [NoOp EXCEPT !.name = "set", !.query = query,
                              !.params = params, !.records = records]
    /\ lastSet' = [lastSet EXCEPT ![<<query, params>>] = Some(records)]
    /\ lastSetKey' = [lastSetKey EXCEPT ![cacheKey(query, params)] = Some(records)]
    /\ cleared' = cleared \ {cacheKey(query, params)}
    /\ UNCHANGED <<env, now, fetchVars, pureVars>>

\* cache.get(query, params, ttl)
Get(query, params, ttl) ==
    /\ lastOp' = [NoOp EXCEPT !.name = "get", !.query = query,
                              !.params = params, !.ttl = ttl,
                              !.value = GetValue(store, query, params, ttl, now)]
    /\ UNCHANGED <<env, now, fetchVars, pureVars, store, dirExists, lastSet,
                   lastSetKey, cleared>>

\* cache.clear()
Clear ==
    /\ store' = IF dirExists THEN ClearStore(store) ELSE store
    /\ lastOp' = [NoOp EXCEPT !.name = "clear",
                  !.count = IF dirExists THEN Cardinality(ClearRemoved(store))
                            ELSE 0]
    /\ lastSet' = [pr \in Pairs |-> Undefined]
    /\ lastSetKey' = [k \in Keys |-> Undefined]
    /\ cleared' = cleared \cup ClearRemoved(store)
    /\ UNCHANGED <<env, now, fetchVars, pureVars, dirExists>>

\* cache.prune(ttl)
Prune(ttl) ==
    /\ store' = IF dirExists THEN PruneStore(store, ttl, now) ELSE store
    /\ lastOp' = [NoOp EXCEPT !.name = "prune", !.ttl = ttl,
                  !.count = IF dirExists
                            THEN Cardinality(PruneRemoved(store, ttl, now))
                            ELSE 0]
    /\ lastSet' = [pr \in Pairs |->
                      IF cacheKey(pr[1], pr[2]) \in PruneRemoved(store, ttl, now)
                      THEN Undefined ELSE lastSet[pr]]
    /\ lastSetKey' = [k \in Keys |->
                         IF k \in PruneRemoved(store, ttl, now)
                         THEN Undefined ELSE lastSetKey[k]]
    /\ UNCHANGED <<env, now, fetchVars, pureVars, dirExists, cleared>>

\* time passes
Tick ==
    /\ now < MaxTime
    /\ now' = now + 1
    /\ UNCHANGED <<env, fetchVars, cacheVars, pureVars>>

CacheInit ==
    /\ env = [envKey |-> TRUE, fileKey |-> FALSE]
    /\ now = 0
    /\ op = "none" /\ opts = NoOpts /\ phase = "loop" /\ pc = "idle"
    /\ pages = 0 /\ page = 0 /\ cursor = "" /\ allTweets = <<>>
    /\ raw = NoBody /\ requests = 0 /\ outstanding = 0 /\ log = <<>>
    /\ result = NoResult /\ fileReads = 0 /\ response = NoResponse
    /\ received = <<>> /\ userRaw = Undefined
    /\ input = <<>> /\ call = NoCall /\ output = <<>>
    /\ store = [k \in Keys |-> NoFile] /\ dirExists = FALSE /\ lastOp = NoOp
    /\ lastSet = [pr \in Pairs |-> Undefined]
    /\ lastSetKey = [k \in Keys |-> Undefined] /\ cleared = {}

CacheNext ==
    \/ \E pr \in Pairs, records \in CacheRecords : Set(pr[1], pr[2], records)
    \/ \E pr \in Pairs, ttl \in TTLs : Get(pr[1], pr[2], ttl)
    \/ Clear
    \/ \E ttl \in TTLs : Prune(ttl)
    \/ Tick

CacheSpec == CacheInit /\ [][CacheNext]_vars

----------------------------------------------------------------------------
(* The transforms, each called once on an array of records *)

SortBy(metric) ==
    /\ call.fn = "none"
    /\ call' = [NoCall EXCEPT !.fn = "sortBy", !.arg = input, !.metric = metric]
    /\ output' = sortBy(input, metric)
    /\ input' = ArrayAfterSort(input, metric)
    /\ UNCHANGED <<env, now, fetchVars, cacheVars>>

FilterEngagement(o) ==
    /\ call.fn = "none"
    /\ call' = [NoCall EXCEPT !.fn = "filterEngagement", !.arg = input, !.o = o]
    /\ output' = filterEngagement(input, o)
    /\ UNCHANGED <<env, now, fetchVars, cacheVars, input>>

Dedupe ==
    /\ call.fn = "none"
    /\ call' = [NoCall EXCEPT !.fn = "dedupe", !.arg = input]
    /\ output' = dedupe(input)
    /\ UNCHANGED <<env, now, fetchVars, cacheVars, input>>

PureInit ==
    /\ env = [envKey |-> TRUE, fileKey |-> FALSE]
    /\ now = 0
    /\ op = "none" /\ opts = NoOpts /\ phase = "loop" /\ pc = "idle"
    /\ pages = 0 /\ page = 0 /\ cursor = "" /\ allTweets = <<>>
    /\ raw = NoBody /\ requests = 0 /\ outstanding = 0 /\ log = <<>>
    /\ result = NoResult /\ fileReads = 0 /\ response = NoResponse
    /\ received = <<>> /\ userRaw = Undefined
    /\ store = [k \in Keys |-> NoFile] /\ dirExists = FALSE /\ lastOp = NoOp
    /\ lastSet = [pr \in Pairs |-> Undefined]
    /\ lastSetKey = [k \in Keys |-> Undefined] /\ cleared = {}
    /\ input \in SeqsUpTo(Tweets, MaxLen) /\ call = NoCall /\ output = <<>>

PureNext ==
    \/ \E metric \in Metrics : SortBy(metric)
    \/ \E o \in Thresholds : FilterEngagement(o)
    \/ Dedupe

PureSpec == PureInit /\ [][PureNext]_vars

----------------------------------------------------------------------------
(* Properties of the fetch pipeline, checked under Spec *)

PagedFetch == op \in {"search", "thread"}
DefaultPages == IF op = "search" THEN SEARCH_DEFAULT_PAGES ELSE THREAD_DEFAULT_PAGES

\* C1 as stated: for every supplied page budget P, search and thread issue at
\* most P requests, whatever the responses report.
C1_BudgetCeilingAnyP ==
    (PagedFetch /\ opts.pages # {}) => requests <= The(opts.pages)

\* C1, amended: for every supplied page budget P >= 1, search and thread issue
\* at most P requests, whatever has_next_page and next_cursor the responses
\* report; a supplied budget of 0 counts as not supplied, and the default
\* budget (1 for search, 2 for thread) is the ceiling then.
C1_BudgetCeiling ==
    /\ (PagedFetch /\ opts.pages # {} /\ The(opts.pages) >= 1)
           => requests <= The(opts.pages)
    /\ (PagedFetch /\ opts.pages = {0}) => requests <= DefaultPages

\* a search with budget 1 that ended after one request although the response
\* reported has_next_page with a cursor
C1_Witness ==
    /\ op = "search" /\ opts.pages = {1} /\ pc = "done"
    /\ raw.has_next_page /\ raw.next_cursor # ""
    /\ requests = 1

\* C2: after a successful page response the fetch issues another request if
\* and only if budget remains (page + 1 < pages), the response's has_next_page
\* is true and its next_cursor is non-empty; otherwise it returns without
\* another request.  The request comes after the inter-page sleep.
C2_ContinueIff ==
    [][ /\ (pc = "await" /\ phase = "loop" /\ pc' # "failed")
            => /\ (pc' = "sleep")
                     <=> (/\ page + 1 < pages
                          /\ raw'.has_next_page
                          /\ raw'.next_cursor # "")
               /\ pc' # "sleep" => (pc' = "done" /\ requests' = requests)
        /\ (pc = "sleep" /\ phase = "loop")
            => (pc' = "await" /\ requests' = requests + 1) ]_vars

\* a timeline loop that went on after its first page and stopped at its second
\* for the missing cursor alone: has_next_page was true and budget remained
C2_Witness ==
    /\ op = "profile" /\ phase = "loop" /\ pc = "done"
    /\ page = 1 /\ page + 1 < pages
    /\ raw.has_next_page /\ raw.next_cursor = ""

\* C3: a fetch that fails returns no records, not even those of completed
\* pages, the failure reaches the caller, and no request follows it.
C3_FailureAborts ==
    [][ /\ pc' = "failed"
            => /\ result'.kind = "error" /\ result'.err # ""
               /\ result'.tweets = <<>> /\ ~result'.user
               /\ outstanding' = 0
        /\ result'.kind = "ok" => pc' = "done"
        /\ pc = "failed" => (pc' = "failed" /\ requests' = requests) ]_vars

\* a fetch whose second request was rate limited after a first page had
\* delivered records
C3_Witness ==
    /\ pc = "failed" /\ result.err = "rate_limit"
    /\ requests >= 2 /\ allTweets # <<>>

\* the cutoff a since value stands for at the clock's reading
CutoffOf(since) ==
    IF since.kind = "short" THEN Some(now - since.v)
    ELSE IF since.kind = "iso" THEN Some(since.v)
    ELSE Undefined

AtOrAfter(tweet, cutoff) ==
    /\ tweet.created_at.fmt = "iso"
    /\ tweet.created_at.t >= cutoff

C5_DelayBetweenCalls ==
    /\ \A i \in 2..Len(log) :
           log[i].e = "call"
               => /\ log[i-1].e = "sleep" /\ log[i-1].ms = RATE_DELAY_MS
                  /\ i > 2 /\ log[i-2].e = "call"
    /\ (pc \in {"done", "failed"} /\ log # <<>>) => log[Len(log)].e = "call"

\* a search that used up a budget of two pages while the API still reported
\* more: request, sleep, request, nothing after
C5_Witness ==
    /\ pc = "done" /\ op = "search" /\ pages = 2
    /\ raw.has_next_page /\ raw.next_cursor # ""
    /\ Len(log) = 3 /\ log[2].e = "sleep" /\ log[3].e = "call"

\* what search has before the ceiling applies: the accumulated records, date
\* filtered when since parses
BeforeCeiling == RecencyFilter(allTweets, opts.since, now)

\* C6 as stated, for a ceiling N >= 1: with maxResults N the result has
\* exactly N records.
C6_ExactlyN ==
    (pc = "done" /\ op = "search" /\ opts.maxResults # {}
        /\ The(opts.maxResults) >= 1)
        => Len(result.tweets) = The(opts.maxResults)

\* C6, amended: with maxResults N >= 1 the ceiling applies once, to the final
\* sequence of all pages, and the result is its first min(N, length) records
\* in order; maxResults 0 counts as not supplied and truncates nothing.
C6_Ceiling ==
    /\ (pc = "done" /\ op = "search" /\ opts.maxResults # {}
            /\ The(opts.maxResults) >= 1)
           => /\ Len(result.tweets) =
                     Min(The(opts.maxResults), Len(BeforeCeiling))
              /\ \A i \in 1..Len(result.tweets) :
                     result.tweets[i] = BeforeCeiling[i]
    /\ (pc = "done" /\ op = "search" /\ opts.maxResults = {0})
           => result.tweets = BeforeCeiling

\* a search over two pages of one record each, cut to the first record
C6_Witness ==
    /\ pc = "done" /\ op = "search" /\ opts.maxResults = {1} /\ opts.since = {}
    /\ requests = 2 /\ Len(allTweets) = 2
    /\ raw.tweets # {} /\ Len(The(raw.tweets)) = 1
    /\ result.tweets = <<allTweets[1]>>

----------------------------------------------------------------------------
(* Properties of the cache store, checked under CacheSpec *)

OpKey(o) == cacheKey(o.query, o.params)
GetStep == lastOp'.name = "get" /\ now' = now
RecordsIn(file) == file.content.json

\* C7 as stated: get with a sufficiently large TTL returns the records of the
\* most recent set for that (query, params).
C7_RoundTripPerPair ==
    (lastOp.name = "get" /\ lastOp.ttl = MaxTime
        /\ lastSet[<<lastOp.query, lastOp.params>>] # {})
        => lastOp.value = lastSet[<<lastOp.query, lastOp.params>>]

\* C7, amended: get(query, params) with a sufficiently large TTL returns a
\* record sequence equal to the one passed to the most recent set of a pair
\* that derives the same key (the pair's own most recent set, unless a pair
\* with the same key was set later); a later set replaces the earlier entry of
\* its key in full, with no merging.
C7_RoundTrip ==
    (lastOp.name = "get" /\ lastOp.ttl = MaxTime
        /\ lastSetKey[OpKey(lastOp)] # {})
        => lastOp.value = lastSetKey[OpKey(lastOp)]

\* a get that returns the records of the later of two sets on one key, where
\* the earlier set had stored other records
C7_Witness ==
    /\ lastOp.name = "get" /\ lastOp.ttl = MaxTime
    /\ lastOp.query = <<"a", "b">> /\ lastOp.params = <<>>
    /\ lastSet[<<(<<"a", "b">>), (<<>>)>>] # {}
    /\ lastSet[<<(<<"a">>), (<<"b">>)>>] # {}
    /\ lastSet[<<(<<"a", "b">>), (<<>>)>>] # lastSet[<<(<<"a">>), (<<"b">>)>>]
    /\ lastOp.value = lastSet[<<(<<"a">>), (<<"b">>)>>]
    /\ Len(The(lastOp.value)) = 1

\* C8: get returns the stored records when the entry's age is at most ttl and
\* absent when the age exceeds ttl; a get changes no entry, and a get with a
\* large TTL right after a get that found the entry expired returns the
\* records.
C8_FreshnessPerRead ==
    [][ GetStep =>
          LET f == store[OpKey(lastOp')] IN
          /\ store' = store
          /\ f = {} => lastOp'.value = {}
          /\ (f # {} /\ now - The(f).mtime <= lastOp'.ttl)
                 => lastOp'.value = {RecordsIn(The(f))}
          /\ (f # {} /\ now - The(f).mtime > lastOp'.ttl)
                 => lastOp'.value = {}
          /\ (/\ lastOp.name = "get" /\ lastOp.value = {}
              /\ OpKey(lastOp) = OpKey(lastOp') /\ f # {}
              /\ lastOp'.ttl = MaxTime)
                 => lastOp'.value = {RecordsIn(The(f))} ]_vars

\* a get that reports absent for an entry that exists and is older than the ttl
C8_Witness ==
    /\ lastOp.name = "get" /\ lastOp.value = {}
    /\ store[OpKey(lastOp)] # {}
    /\ lastOp.ttl >= 1
    /\ now - The(store[OpKey(lastOp)]).mtime > lastOp.ttl

\* C9: clear() returns the number of entries the store held (0 for an empty
\* store and for a store whose directory does not exist), leaves no entry, and
\* every get of a key it removed returns absent, whatever the ttl, until that
\* key is set again.
C9_ClearRemovesAll ==
    [][ /\ (lastOp'.name = "clear" /\ now' = now)
            => /\ lastOp'.count = Cardinality({k \in Keys : store[k] # {}})
               /\ \A k \in Keys : store'[k] = {}
               /\ ~dirExists => lastOp'.count = 0
        /\ (GetStep /\ OpKey(lastOp') \in cleared') => lastOp'.value = {} ]_vars

\* a get with the largest TTL that returns absent for a key clear() removed
\* when the store held two entries
C9_Witness ==
    /\ lastOp.name = "get" /\ lastOp.ttl = MaxTime /\ lastOp.value = {}
    /\ OpKey(lastOp) \in cleared /\ Cardinality(cleared) = 2

\* C10: prune(ttl) removes exactly the entries whose age exceeds ttl, returns
\* their number, and leaves every other entry as it was; with a ttl no age
\* exceeds it removes nothing and returns 0.
C10_PruneExact ==
    [][ (lastOp'.name = "prune" /\ now' = now) =>
          LET old == {k \in Keys : store[k] # {}
                                   /\ now - The(store[k]).mtime > lastOp'.ttl} IN
          /\ \A k \in old : store'[k] = {}
          /\ \A k \in Keys \ old : store'[k] = store[k]
          /\ lastOp'.count = Cardinality(old)
          /\ lastOp'.ttl = MaxTime => (lastOp'.count = 0 /\ store' = store) ]_vars

\* a prune that removed one entry and kept a fresher one
C10_Witness ==
    /\ lastOp.name = "prune" /\ lastOp.count = 1 /\ lastOp.ttl >= 1
    /\ \E k \in Keys : store[k] # {} /\ now - The(store[k]).mtime = lastOp.ttl

SetStep == lastOp'.name = "set" /\ now' = now

\* C11 as stated: a set under one pair leaves the result of get under every
\* pair that differs from it in the query or in the params unchanged.
C11_DifferentPairsApart ==
    [][ SetStep =>
          \A pr \in Pairs, ttl \in TTLs :
              pr # <<lastOp'.query, lastOp'.params>>
                  => GetValue(store', pr[1], pr[2], ttl, now)
                         = GetValue(store, pr[1], pr[2], ttl, now) ]_vars

\* C11, amended: the key is a function of (query, params), so a set is read
\* back by a get of the identical pair; and a set under one pair leaves the
\* result of get unchanged under every pair whose concatenation query + params
\* differs from its own (pairs that differ but concatenate to the same string
\* share one entry).
C11_KeysApart ==
    [][ SetStep =>
          /\ GetValue(store', lastOp'.query, lastOp'.params, MaxTime, now)
                 = {lastOp'.records}
          /\ \A pr \in Pairs, ttl \in TTLs :
                 (pr[1] \o pr[2]) # (lastOp'.query \o lastOp'.params)
                     => GetValue(store', pr[1], pr[2], ttl, now)
                            = GetValue(store, pr[1], pr[2], ttl, now) ]_vars

\* a set of ("a", "b") beside an entry of ("a", "") that holds other records
C11_Witness ==
    /\ lastOp.name = "set"
    /\ lastOp.query = <<"a">> /\ lastOp.params = <<"b">>
    /\ store[<<"a">>] # {} /\ store[<<"a", "b">>] # {}
    /\ RecordsIn(The(store[<<"a">>])) # lastOp.records
    /\ RecordsIn(The(store[<<"a", "b">>])) = lastOp.records

----------------------------------------------------------------------------
(* Properties of the key lookup and of the transport call, checked under Spec *)

Calls == SelectSeq(log, LAMBDA x : x.e = "call")
Started == pc # "idle"

(* C12: when the key is neither in the environment variable nor in the     *)
(* configuration file, every fetch that was started (search, thread,       *)
(* profile, getTweet) has failed with the configuration error and has      *)
(* issued no request; when the environment variable is set, every request  *)
(* carries the key of the environment and the file is never read.          *)
C12_KeyLookup ==
    /\ (~env.envKey /\ ~env.fileKey /\ Started)
         => /\ pc = "failed" /\ result.kind = "error" /\ result.err = "config"
            /\ requests = 0 /\ Calls = <<>> /\ outstanding = 0
    /\ env.envKey
         => /\ fileReads = 0
            /\ \A i \in 1..Len(Calls) : Calls[i].key = "env"
    /\ (env.envKey \/ env.fileKey) => result.err # "config"

C12_Witness ==
    /\ ~env.envKey /\ ~env.fileKey
    /\ op = "getTweet" /\ pc = "failed" /\ result.err = "config"
    /\ requests = 0 /\ fileReads = 1

\* the errors apiGet itself throws or lets through
TransportErrors == {"network", "rate_limit", "http", "parse"}

(* C13: one transport call issues one request and never retries.  In the   *)
(* step that receives the response to the request in flight: a 429 fails   *)
(* the fetch with the rate-limit error and never the generic one; another  *)
(* non-2xx status fails it with the generic error, which carries the       *)
(* status and the first 200 characters of the body text; in both cases no  *)
(* further request is issued; and a parsed body reaches the caller only    *)
(* from a 2xx response.  Every request on record is one call.              *)
C13_Transport ==
    [][ /\ pc = "await" =>
            /\ outstanding = 1 /\ outstanding' <= 1
            /\ response'.status = 429
                 => /\ pc' = "failed" /\ result'.err = "rate_limit"
                    /\ result'.detail = NoDetail
                    /\ requests' = requests /\ log' = log /\ outstanding' = 0
            /\ (response'.status # 0 /\ response'.status # 429
                  /\ ~(response'.status \in 200..299))
                 => /\ pc' = "failed" /\ result'.err = "http"
                    /\ result'.detail.status = response'.status
                    /\ result'.detail.text =
                         (IF response'.text <= 200 THEN response'.text ELSE 200)
                    /\ requests' = requests /\ log' = log /\ outstanding' = 0
            /\ (pc' # "failed" \/ result'.err \notin TransportErrors)
                 => /\ response'.status \in 200..299 /\ response'.json
                    /\ raw' \in PageBodies(<<>>) \cup InfoBodies \cup TweetBodies
        /\ requests' \in {requests, requests + 1}
        /\ Len(Calls') = requests' ]_vars

\* a 500 whose body text is longer than 200 characters, received for the
\* second request of a fetch
C13_Witness ==
    /\ pc = "failed" /\ result.err = "http" /\ requests = 2
    /\ response.status = 500 /\ response.text = BODY_SLICE + 1
    /\ result.detail = [status |-> 500, text |-> 200]

----------------------------------------------------------------------------
(* Properties of profile, checked under Spec *)

InfoCalls == SelectSeq(log, LAMBDA x : x.e = "call" /\ x.path = "/twitter/user/info")
TimelineCalls ==
    SelectSeq(log, LAMBDA x : x.e = "call" /\ x.path = "/twitter/user/last_tweets")

\* what C14 promises of a profile whose effective count is n
ProfileWithin(n) ==
    /\ Len(InfoCalls) <= 1
    /\ TimelineCalls # <<>> => (Len(InfoCalls) = 1 /\ Calls[1] = InfoCalls[1])
    /\ Len(TimelineCalls) <= CeilDiv(n, 20)
    /\ pc = "done"
         => /\ Len(result.tweets) <= n
            /\ result.tweets = Slice0(allTweets, n)

\* C14 as stated: for every supplied count, profile issues at most
\* ceil(count / 20) timeline calls after exactly one user-info call and returns
\* the first count of the accumulated records.
C14_ProfileAnyCount ==
    (op = "profile" /\ opts.count # {}) => ProfileWithin(The(opts.count))

\* C14, amended: for every supplied count >= 1, profile issues at most
\* ceil(count / 20) timeline calls after exactly one user-info call and returns
\* the first count of the accumulated records, in order; a count of 0 counts
\* as not supplied, and 20 stands for the count then.
C14_ProfileBudget ==
    /\ (op = "profile" /\ opts.count # {} /\ The(opts.count) >= 1)
         => ProfileWithin(The(opts.count))
    /\ (op = "profile" /\ opts.count \in {{}, {0}}) => ProfileWithin(20)

\* a profile with count 1 whose only timeline page held two records and
\* reported more to come
C14_Witness ==
    /\ op = "profile" /\ opts.count = {1} /\ pc = "done"
    /\ Len(InfoCalls) = 1 /\ Len(TimelineCalls) = 1
    /\ raw.has_next_page /\ raw.next_cursor # ""
    /\ Len(allTweets) = 2 /\ result.tweets = <<allTweets[1]>>

----------------------------------------------------------------------------
(* Properties of the transforms, checked under PureSpec *)

\* the number of positions of s that hold a record with this id
CountId(s, id) == Cardinality({i \in 1..Len(s) : s[i].id = id})
CountOf(s, t) == Cardinality({i \in 1..Len(s) : s[i] = t})

(* C15: sortBy returns a permutation of its argument (the same records,    *)
(* each id as often as before), in descending order of the named metric,   *)
(* with the records of one metric value in the order they had in the       *)
(* argument; the caller's array is as it was; and sorting the returned     *)
(* sequence again by the same metric returns it unchanged.                 *)
C15_SortBy ==
    call.fn = "sortBy" =>
        /\ Len(output) = Len(call.arg)
        /\ \A id \in TweetIds : CountId(output, id) = CountId(call.arg, id)
        /\ \A t \in Tweets : CountOf(output, t) = CountOf(call.arg, t)
        /\ \A i, j \in 1..Len(output) :
             i < j => output[i].metrics[call.metric] >= output[j].metrics[call.metric]
        /\ \A v \in 0..MaxMetric :
             SelectSeq(output, LAMBDA t : t.metrics[call.metric] = v)
               = SelectSeq(call.arg, LAMBDA t : t.metrics[call.metric] = v)
        /\ input = call.arg
        /\ sortBy(output, call.metric) = output

\* three records sorted by likes: the last one rises to the front, the two
\* that tie (with different ids) keep their order
C15_Witness ==
    /\ call.fn = "sortBy" /\ call.metric = "likes" /\ Len(call.arg) = 3
    /\ call.arg[1].metrics.likes = 0 /\ call.arg[2].metrics.likes = 0
    /\ call.arg[3].metrics.likes = 1
    /\ call.arg[1].id # call.arg[2].id
    /\ output = <<call.arg[3], call.arg[1], call.arg[2]>>
    /\ input = call.arg

\* does a record meet the supplied thresholds
Meets(t, o) ==
    /\ o.minLikes # {} => t.metrics.likes >= The(o.minLikes)
    /\ o.minImpressions # {} => t.metrics.impressions >= The(o.minImpressions)

(* C16: filterEngagement returns, in the order of its argument, exactly    *)
(* the records that meet or exceed every supplied threshold, a supplied    *)
(* threshold of 0 included; with no threshold supplied it returns the      *)
(* argument, same records and same order.                                  *)
C16_FilterEngagement ==
    call.fn = "filterEngagement" =>
        /\ output = SelectSeq(call.arg, LAMBDA t : Meets(t, call.o))
        /\ call.o = NoThresholds => output = call.arg
        /\ input = call.arg

\* a likes threshold of 0 with an impressions threshold that one record
\* meets exactly and another misses
C16_Witness ==
    /\ call.fn = "filterEngagement"
    /\ call.o.minLikes = {0} /\ call.o.minImpressions = {MaxMetric}
    /\ Len(call.arg) = 3 /\ Len(output) = 1
    /\ output[1] = call.arg[2]
    /\ call.arg[2].metrics.impressions = MaxMetric
    /\ call.arg[2].metrics.likes = 0

\* the position of the first record of s with the id of s[i]
FirstPos(s, i) == CHOOSE k \in 1..i : s[k].id = s[i].id /\ \A j \in 1..(k-1) : s[j].id # s[i].id
FirstPositions(s) == {i \in 1..Len(s) : FirstPos(s, i) = i}

(* C17: dedupe returns the subsequence of its argument that holds, for     *)
(* each id, the record at the first position of that id, in the order of   *)
(* the argument; it is no longer than the argument, and dedupe of it       *)
(* returns it unchanged.                                                   *)
C17_Dedupe ==
    call.fn = "dedupe" =>
        /\ Len(output) = Cardinality(FirstPositions(call.arg))
        /\ \A k \in 1..Len(output) :
             \E i \in FirstPositions(call.arg) :
                /\ output[k] = call.arg[i]
                /\ Cardinality({j \in FirstPositions(call.arg) : j < i}) = k - 1
        /\ Len(output) <= Len(call.arg)
        /\ dedupe(output) = output
        /\ input = call.arg

\* two different records with one id around a record with another id: the
\* first is kept, the third dropped
C17_Witness ==
    /\ call.fn = "dedupe" /\ Len(call.arg) = 3
    /\ call.arg[1].id = call.arg[3].id /\ call.arg[1] # call.arg[3]
    /\ call.arg[2].id # call.arg[1].id
    /\ output = <<call.arg[1], call.arg[2]>>

----------------------------------------------------------------------------
(* Properties of the page loop's sequencing, checked under Spec *)

LoopCalls == SelectSeq(log, LAMBDA x : x.e = "call" /\ x.path = LoopPath(op))
Sleeps == SelectSeq(log, LAMBDA x : x.e = "sleep")

(* C18: at most one request is in flight at any time, and it is in flight  *)
(* exactly while the fetch awaits it.  A request is issued, and a delay    *)
(* started, only by a step that leaves no earlier request in flight: the   *)
(* step that receives a page appends its records and has the request       *)
(* answered before the delay starts, and the step that ends the delay      *)
(* issues the next request with none in flight and the records in place.   *)
C18_OneInFlight ==
    [][ /\ outstanding' \in {0, 1}
        /\ outstanding' = 1 <=> pc' = "await"
        /\ (pc = "await" /\ phase = "loop" /\ pc' # "failed")
             => /\ outstanding = 1
                /\ allTweets' = allTweets \o parseTweets(raw'.tweets)
                /\ Len(Sleeps') > Len(Sleeps) => (outstanding' = 0 /\ requests' = requests)
        /\ requests' > requests
             => /\ requests' = requests + 1
                /\ pc \in {"idle", "sleep"} /\ outstanding = 0
                /\ allTweets' = allTweets
        /\ Len(Sleeps') > Len(Sleeps) => (pc = "await" /\ pc' = "sleep") ]_vars

\* the second request of a search in flight, issued after the delay that
\* followed a first page of two records
C18_Witness ==
    /\ op = "search" /\ pc = "await" /\ outstanding = 1 /\ requests = 2
    /\ Len(allTweets) = 2 /\ Len(Sleeps) = 1
    /\ log[Len(log)].e = "call" /\ log[Len(log) - 1].e = "sleep"

(* C19: the first request of a page loop carries no cursor, and every      *)
(* later one carries the next_cursor of the response received last, the    *)
(* one to the request before it.                                           *)
C19_CursorThreading ==
    [][ (requests' = requests + 1 /\ phase' = "loop")
            => /\ LoopCalls' = Append(LoopCalls, log'[Len(log')])
               /\ IF LoopCalls = <<>>
                  THEN log'[Len(log')].cursor = ""
                  ELSE /\ log'[Len(log')].cursor = raw.next_cursor
                       /\ raw.next_cursor # ""
                       /\ raw' = raw ]_vars

\* a timeline loop of three requests: the second carried the first response's
\* cursor, the third the second response's, a different one
C19_Witness ==
    /\ op = "profile" /\ Len(LoopCalls) = 3
    /\ LoopCalls[1].cursor = "" /\ LoopCalls[2].cursor = "c2"
    /\ LoopCalls[3].cursor = "c1" /\ raw.next_cursor = "c1"

(* C20: a page response without a record list adds no record and does not  *)
(* fail the fetch; the loop goes on to its delay and next request if and   *)
(* only if the response has has_next_page true and a cursor and budget     *)
(* remains, and returns the accumulated records otherwise.                 *)
C20_MissingList ==
    [][ (pc = "await" /\ phase = "loop" /\ response'.status = 200
           /\ response'.json /\ raw'.tweets = {})
            => /\ allTweets' = allTweets
               /\ pc' \in {"sleep", "done"}
               /\ pc' = "sleep" <=> (/\ raw'.has_next_page
                                     /\ raw'.next_cursor # ""
                                     /\ page + 1 < pages)
               /\ pc' = "done" => (result'.kind = "ok" /\ requests' = requests) ]_vars

\* a thread whose first page had no record list, has_next_page true and a
\* cursor: nothing accumulated, no failure, the delay before the second
\* request under way
C20_Witness ==
    /\ op = "thread" /\ phase = "loop" /\ pc = "sleep" /\ requests = 1
    /\ response = OkResponse /\ raw.tweets = {}
    /\ raw.has_next_page /\ raw.next_cursor = "c1"
    /\ allTweets = <<>> /\ result = NoResult

----------------------------------------------------------------------------
(* Properties of what a fetch returns, checked under Spec *)

\* the records of a received record list, none when the list is missing
ListOf(rawTweets) == IF rawTweets = {} THEN <<>> ELSE The(rawTweets)

\* the raw records of the pages p[1], ..., p[n], page after page
RECURSIVE RawConcat(_, _)
RawConcat(p, n) ==
    IF n = 0 THEN <<>> ELSE RawConcat(p, n - 1) \o ListOf(p[n])

Unfiltered ==
    \/ op = "thread"
    \/ op = "search" /\ opts.since = {} /\ opts.maxResults = {}

(* C21: a thread, and a search without since and without maxResults, whose *)
(* requests all succeeded returns the normalized records of the pages it   *)
(* received, page after page in the order received and each page in its    *)
(* own order: as many records as the pages held, the k-th being the        *)
(* normalized k-th raw record.                                             *)
C21_Concatenation ==
    (pc = "done" /\ Unfiltered) =>
        /\ Len(received) = requests
        /\ Len(result.tweets) = Len(RawConcat(received, Len(received)))
        /\ \A k \in 1..Len(result.tweets) :
             /\ result.tweets[k].id = RawConcat(received, Len(received))[k].id
             /\ result.tweets[k] = parseTweet(RawConcat(received, Len(received))[k])

\* a thread of two pages of one record each, the later record first in time
\* and second in the result
C21_Witness ==
    /\ op = "thread" /\ pc = "done" /\ Len(received) = 2
    /\ received[1] = {<< [id |-> "2", createdAt |-> TwitterDate(1)] >>}
    /\ received[2] = {<< [id |-> "1", createdAt |-> TwitterDate(0)] >>}
    /\ Len(result.tweets) = 2
    /\ result.tweets[1].id = "2" /\ result.tweets[2].id = "1"

----------------------------------------------------------------------------
(* Termination, checked under FairSpec *)

Terminal == pc \in {"done", "failed"}

(* C22: when every request is answered in the end, by a response or by an  *)
(* error, every fetch that was started reaches a terminal state, a         *)
(* returned record sequence or a failure handed to the caller, whatever    *)
(* has_next_page and next_cursor the responses report.                     *)
C22_Terminates ==
    /\ Started ~> (\/ pc = "done" /\ result.kind = "ok"
                   \/ pc = "failed" /\ result.kind = "error")
    /\ [][Terminal => (Terminal' /\ outstanding' = 0 /\ result' = result)]_vars

\* a thread that used up its budget of two pages while both responses
\* reported has_next_page with a cursor, a different one each time
C22_Witness ==
    /\ op = "thread" /\ opts.pages = {2} /\ pc = "done" /\ result.kind = "ok"
    /\ requests = 2 /\ Len(Sleeps) = 1
    /\ raw.has_next_page /\ raw.next_cursor = "c2"
    /\ LoopCalls[2].cursor = "c1"

----------------------------------------------------------------------------
(* The order of search's filter and cut, checked under Spec *)

\* the accumulated records at or after the cutoff of opts.since; all of them
\* when opts.since stands for no cutoff
PassingCutoff ==
    IF opts.since # {} /\ CutoffOf(The(opts.since)) # {}
    THEN SelectSeq(allTweets,
             LAMBDA t : AtOrAfter(t, The(CutoffOf(The(opts.since)))))
    ELSE allTweets

\* C23 as stated: with since and maxResults = N both supplied, a search returns
\* the first N (or all, if fewer) of the accumulated records that pass the
\* cutoff, for every N.
C23_FilterThenCutAnyN ==
    (pc = "done" /\ op = "search" /\ opts.since # {} /\ opts.maxResults # {})
        => result.tweets = Slice0(PassingCutoff, The(opts.maxResults))

(* C23, amended: with since and maxResults = N >= 1 both supplied, a search *)
(* returns the first N (or all, if fewer) of the accumulated records that  *)
(* pass the cutoff, so the filter comes before the cut; a supplied N of 0  *)
(* counts as not supplied, and all the records that pass are returned.     *)
C23_FilterThenCut ==
    /\ (pc = "done" /\ op = "search" /\ opts.since # {}
          /\ opts.maxResults # {} /\ The(opts.maxResults) >= 1)
         => result.tweets = Slice0(PassingCutoff, The(opts.maxResults))
    /\ (pc = "done" /\ op = "search" /\ opts.since # {}
          /\ opts.maxResults = {0})
         => result.tweets = PassingCutoff

\* a search with a cutoff and N = 1 that accumulated a record before the
\* cutoff and then one after it: the later record is the result
C23_Witness ==
    /\ pc = "done" /\ op = "search"
    /\ opts.since = {[kind |-> "short", v |-> 1]} /\ opts.maxResults = {1}
    /\ Len(allTweets) = 2
    /\ allTweets[1].id = "1" /\ allTweets[2].id = "2"
    /\ result.tweets = <<allTweets[2]>>

----------------------------------------------------------------------------
(* profile's user-info gate, checked under Spec *)

NothingReturned ==
    /\ pc = "failed" /\ result.kind = "error"
    /\ result.tweets = <<>> /\ ~result.user

(* C24: profile calls the last-tweets endpoint only after a user-info      *)
(* response with data and without status "error".  When the user-info call *)
(* fails, or its response has no data or has status "error", profile has   *)
(* failed after exactly one request and returns neither user nor tweets.   *)
C24_InfoGate ==
    op = "profile" =>
        /\ TimelineCalls # <<>>
             => /\ userRaw # {}
                /\ The(userRaw).data /\ The(userRaw).status # "error"
        /\ (userRaw # {} /\ (~The(userRaw).data \/ The(userRaw).status = "error"))
             => /\ NothingReturned
                /\ requests = 1 /\ Len(InfoCalls) = 1 /\ TimelineCalls = <<>>
        /\ (userRaw = {} /\ requests >= 1 /\ pc # "await")
             => /\ NothingReturned /\ result.err \in TransportErrors
                /\ requests = 1 /\ Len(InfoCalls) = 1 /\ TimelineCalls = <<>>

\* a user-info response that has data and status "error"
C24_Witness ==
    /\ op = "profile" /\ pc = "failed" /\ result.err = "not_found"
    /\ userRaw = {[data |-> TRUE, status |-> "error"]}
    /\ requests = 1 /\ log = <<InfoCalls[1]>>

----------------------------------------------------------------------------
(* The default page budgets, checked under Spec *)

\* the calls of apiGet so far: the requests issued, and the call that threw
\* the configuration error before its request
ApiGetCalls == requests + (IF result.err = "config" THEN 1 ELSE 0)

(* C25: a search without opts.pages has a budget of 1 page and a thread     *)
(* without opts.pages a budget of 2: the search makes one transport call,  *)
(* exactly one once it has ended, and the thread at most two, whatever     *)
(* has_next_page and next_cursor the responses report.                     *)
C25_DefaultBudgets ==
    /\ (op = "search" /\ opts.pages = {})
         => /\ pages = 1 /\ ApiGetCalls = 1 /\ requests <= 1
            /\ Len(received) <= 1
    /\ (op = "thread" /\ opts.pages = {})
         => /\ pages = 2 /\ ApiGetCalls \in {1, 2} /\ requests <= 2
            /\ Len(received) <= 2

\* a search without opts.pages that ended after one request whose response
\* held two records and reported more behind a cursor
C25_Witness ==
    /\ op = "search" /\ opts.pages = {} /\ pc = "done"
    /\ requests = 1 /\ Len(received) = 1 /\ Len(allTweets) = 2
    /\ raw.has_next_page /\ raw.next_cursor = "c1"

====
